---- MODULE Spec2Model ----
(***************************************************************************)
(* Model of the project-uninit crate: the compile-time path conflict       *)
(* checker (src/assert_unique.rs), the projection macros (src/project.rs), *)
(* partial_init! (src/partial_init.rs) and the lifetime helpers            *)
(* (src/utils.rs).                                                         *)
(*                                                                         *)
(* A field path is the sequence of tokens the caller writes between `=>`;  *)
(* the macros turn it into the token group [ p1 . p2 . ... ].  Memory is   *)
(* the byte array behind the MaybeUninit<_>; addresses are byte offsets    *)
(* from MaybeUninit::as_mut_ptr().  An uninitialized byte is Uninit.       *)
(***************************************************************************)
EXTENDS Integers, Sequences, FiniteSets, TLC

\* ------------------------------------------------------------------ bounds
\* longest path list handed to the conflict checker alone (SpecCheck)
MaxPaths == 3
\* field accesses of one behaviour: the field paths named by its macro
\* calls (a call that names none counting for one) and the stores through
\* handles (Spec)
MaxFields == 2
\* the values the callers store into primitive fields
Vals == {1, 2}

Uninit == 0 - 1

\* ------------------------------------------------------------- aggregates
\* The aggregate types the macros are applied to.  "Foo" is the struct of
\* the integration tests; "Un" is a union (the macros' docs allow unions).
\*   struct Foo { a: usize, b: (i32, (u8, i8), &'static str) }
\*   union  Un  { x: u32, y: (u16, u16) }
\* Each entry: kind of the field, its offset inside its parent, its size.
Types == {"Foo", "Un"}

FooFields ==
    (<<"a">>           :> [kind |-> "prim",  off |-> 0,  size |-> 8])  @@
    (<<"b">>           :> [kind |-> "tuple", off |-> 8,  size |-> 24]) @@
    (<<"b", "0">>      :> [kind |-> "prim",  off |-> 0,  size |-> 4])  @@
    (<<"b", "1">>      :> [kind |-> "tuple", off |-> 4,  size |-> 2])  @@
    (<<"b", "1", "0">> :> [kind |-> "prim",  off |-> 0,  size |-> 1])  @@
    (<<"b", "1", "1">> :> [kind |-> "prim",  off |-> 1,  size |-> 1])  @@
    (<<"b", "2">>      :> [kind |-> "prim",  off |-> 8,  size |-> 16])

UnFields ==
    (<<"x">>      :> [kind |-> "prim",  off |-> 0, size |-> 4]) @@
    (<<"y">>      :> [kind |-> "tuple", off |-> 0, size |-> 4]) @@
    (<<"y", "0">> :> [kind |-> "prim",  off |-> 0, size |-> 2]) @@
    (<<"y", "1">> :> [kind |-> "prim",  off |-> 2, size |-> 2])

Fields(t) == IF t = "Foo" THEN FooFields ELSE UnFields

\* kind of the aggregate itself (the empty path)
RootKind(t) == IF t = "Foo" THEN "struct" ELSE "union"

SizeOf(t) == IF t = "Foo" THEN 32 ELSE 4

FieldPaths(t) == DOMAIN Fields(t)

KindAt(t, p) == IF p = <<>> THEN RootKind(t) ELSE Fields(t)[p].kind

Parent(p) == SubSeq(p, 1, Len(p) - 1)

IsPrefix(p, q) == Len(p) <= Len(q) /\ SubSeq(q, 1, Len(p)) = p


\* number of leading tokens on which p and q agree
CommonLen(p, q) ==
    LET m == IF Len(p) <= Len(q) THEN Len(p) ELSE Len(q)
    IN  CHOOSE k \in 0..m :
            /\ SubSeq(p, 1, k) = SubSeq(q, 1, k)
            /\ (k = m \/ p[k + 1] # q[k + 1])

\* ---------------------------------------------------------------- layout
\* core::ptr::addr_of!((*ptr).p1.p2...): ptr plus the offset of every field
\* on the way; nothing is read.
\* (mutant) only the last field's offset is added
addr_of_last_field(t, ptr, p) ==
    IF p = <<>> THEN ptr ELSE ptr + Fields(t)[p].off

RECURSIVE addr_of(_, _, _)
addr_of(t, ptr, p) ==
    IF p = <<>> THEN ptr
    ELSE addr_of(t, ptr, Parent(p)) + Fields(t)[p].off

size_of(t, p) == Fields(t)[p].size

\* the byte addresses addr .. addr+size-1
Range(addr, size) == addr..(addr + size - 1)

\* the primitive fields stored inside path p (p itself when primitive)
LeavesIn(t, p) ==
    {l \in FieldPaths(t) : IsPrefix(p, l) /\ Fields(t)[l].kind = "prim"}

\* The bytes of the value of p's type whose every primitive field is v
\* (little endian, v < 256); bytes of p that belong to no field are padding
\* and carry no value.
FieldValue(t, p, v) ==
    [k \in 1..size_of(t, p) |->
        LET rel == k - 1
            at(l) == addr_of(t, 0, l) - addr_of(t, 0, p)
            cover == {l \in LeavesIn(t, p) :
                         rel \in Range(at(l), size_of(t, l))}
        IN  IF cover = {} THEN Uninit
            ELSE IF \E l \in cover : at(l) = rel THEN v ELSE 0]

\* FieldValue tabulated (evaluated once)
ValueTable ==
    [t \in Types |-> [p \in FieldPaths(t) |-> [v \in Vals |-> FieldValue(t, p, v)]]]

ValueBytes(t, p, v) == ValueTable[t][p][v]

\* (mutant) the store runs on to the end of the storage
ptr_write_overrun(m, dst, bytes) ==
    [k \in DOMAIN m |->
        IF k \in Range(dst, Len(bytes)) THEN bytes[k - dst + 1]
        ELSE IF k > dst THEN 0 ELSE m[k]]

\* (mutant) a byte that already holds a value is not stored again
ptr_write_first_wins(m, dst, bytes) ==
    [k \in DOMAIN m |->
        IF k \in Range(dst, Len(bytes)) /\ m[k] = Uninit
        THEN bytes[k - dst + 1] ELSE m[k]]

\* core::ptr::write(dst, val): stores size_of(val) bytes at dst, reads nothing
ptr_write(m, dst, bytes) ==
    [k \in DOMAIN m |->
        IF k \in Range(dst, Len(bytes)) THEN bytes[k - dst + 1] ELSE m[k]]

\* the bytes a handle of `size` bytes at `addr` reads
ReadBytes(m, addr, size) == [k \in 1..size |-> m[addr + k - 1]]

\* ------------------------------------------------------ conflict checker
\* the receiver expression $expr of the call, as stringify! prints it
HeadExpr == "x"

\* [ $($props).+ ] : the path's tokens joined by `.` tokens
RECURSIVE PathTokens(_)
PathTokens(p) ==
    IF Len(p) = 1 THEN <<p[1]>>
    ELSE PathTokens(Parent(p)) \o <<".", p[Len(p)]>>

\* (mutant) the arm for equal groups is missing
fail_if_starts_with_no_equal_arm(head, a, b) ==
    IF Len(b) > Len(a) /\ SubSeq(b, 1, Len(a)) = a THEN
        << [arm |-> "prefix",
            msg |-> <<"Cannot mutably borrow '", head, ".">> \o a
                    \o SubSeq(b, Len(a) + 1, Len(b))
                    \o <<"' and and its parent '", head, ".">> \o a
                    \o <<"' at the same time.">>] >>
    ELSE << >>

\* (mutant) the prefix arm matches on the first token alone
fail_if_starts_with_first_token(head, a, b) ==
    IF b = a THEN
        << [arm |-> "equal",
            msg |-> <<"Cannot mutably borrow '", head, ".">> \o a
                    \o <<"' more than once at a time">>] >>
    ELSE IF Len(b) > 1 /\ b[1] = a[1] THEN
        << [arm |-> "prefix",
            msg |-> <<"Cannot mutably borrow '", head, ".">> \o a
                    \o <<"' and and its parent '", head, ".">> \o a
                    \o <<"' at the same time.">>] >>
    ELSE << >>

\* (mutant) the prefix arm prints the parent in the place of the child
fail_if_starts_with_parent_twice(head, a, b) ==
    IF b = a THEN
        << [arm |-> "equal",
            msg |-> <<"Cannot mutably borrow '", head, ".">> \o a
                    \o <<"' more than once at a time">>] >>
    ELSE IF Len(b) > Len(a) /\ SubSeq(b, 1, Len(a)) = a THEN
        << [arm |-> "prefix",
            msg |-> <<"Cannot mutably borrow '", head, ".">> \o a
                    \o <<"' and and its parent '", head, ".">> \o a
                    \o <<"' at the same time.">>] >>
    ELSE << >>

\* __fail_if_starts_with!($b), generated for the token group a: the first
\* arm matches b = a, the second b = a followed by one or more tokens, the
\* third anything.  The result is the compile_error! expansions (0 or 1).
fail_if_starts_with(head, a, b) ==
    IF b = a THEN
        << [arm |-> "equal",
            msg |-> <<"Cannot mutably borrow '", head, ".">> \o a
                    \o <<"' more than once at a time">>] >>
    ELSE IF Len(b) > Len(a) /\ SubSeq(b, 1, Len(a)) = a THEN
        << [arm |-> "prefix",
            msg |-> <<"Cannot mutably borrow '", head, ".">> \o a
                    \o SubSeq(b, Len(a) + 1, Len(b))
                    \o <<"' and and its parent '", head, ".">> \o a
                    \o <<"' at the same time.">>] >>
    ELSE << >>

\* (mutant) the expansion stops at the first group that matches
RECURSIVE assert_not_from_self_first_only(_, _, _)
assert_not_from_self_first_only(head, a, bs) ==
    IF bs = <<>> THEN <<>>
    ELSE IF fail_if_starts_with(head, a, Head(bs)) # <<>>
         THEN fail_if_starts_with(head, a, Head(bs))
         ELSE assert_not_from_self_first_only(head, a, Tail(bs))

\* __assert_not_from_self!(head, a, [bs], $): __fail_if_starts_with! on
\* every group of bs, in order
RECURSIVE assert_not_from_self(_, _, _)
assert_not_from_self(head, a, bs) ==
    IF bs = <<>> THEN <<>>
    ELSE fail_if_starts_with(head, a, Head(bs))
         \o assert_not_from_self(head, a, Tail(bs))

\* (mutant) $current is tested against the groups after it only
OthersAfterOnly(prv, rst) == rst

\* (mutant) the groups after $current are tested before those in front of it
OthersRestFirst(prv, rst) == rst \o prv

\* [$($prev)* $next $($rest)*]: the groups $current is tested against
Others(prv, rst) == prv \o rst

\* the token groups the exclusive macros hand to __assert_unique!
TokenGroups(ps) == [k \in 1..Len(ps) |-> PathTokens(ps[k])]

\* __assert_unique!(@inner head, current, [prev], [rest]) run to the end
RECURSIVE assert_unique_inner(_, _, _, _)
assert_unique_inner(head, cur, prv, rst) ==
    IF rst = <<>> THEN assert_not_from_self(head, cur, Others(prv, <<>>))
    ELSE assert_not_from_self(head, cur, Others(prv, rst))
         \o assert_unique_inner(head, Head(rst), Append(prv, cur), Tail(rst))

\* __assert_unique!(head, [groups]): all the errors of the expansion
assert_unique(head, groups) ==
    IF Len(groups) >= 2
    THEN assert_unique_inner(head, Head(groups), <<>>, Tail(groups))
    ELSE <<>>


\* ------------------------------------------------------------------ state
VARIABLES
    ty,        \* the aggregate's type
    alive,     \* the aggregate's storage is in scope
    mem,       \* the bytes of the storage
    written,   \* (history) per primitive field, the value last stored into
               \* it, at creation, by partial_init! or through a handle
    handles,   \* the live handles returned by earlier calls
    calls,     \* macro calls made so far that named a field
    used,      \* field accesses so far: paths named by calls (a call naming
               \* none counts one) and stores through handles
    committed, \* the bytes assume_init() returned, <<>> before
    pc,        \* position in the current macro call
    op,        \* the macro being expanded / run
    paths,     \* its field paths, in the order written
    form,      \* the arm of the macro the call matched: "multi" or "single"
    vals,      \* partial_init!: the value of every path
    pre,       \* the storage when the call started
    errors,    \* the compile_error! expansions so far
    verdict,   \* why the compiler rejected the call ("" if it did not)
    current,   \* __assert_unique!(@inner): $current
    prev,      \* __assert_unique!(@inner): [$prev...]
    rest,      \* __assert_unique!(@inner): [$next $rest...]
    lt,        \* the Lifetime bound to the borrow of the aggregate
    i,         \* the field block being run
    ret        \* the handles the call has produced so far

vars == <<ty, alive, mem, written, handles, calls, used, committed, pc, op, paths,
          form, vals, pre, errors, verdict, current, prev, rest, lt, i, ret>>

frame == <<op, paths, form, vals, pre, errors, verdict, lt, i, ret>>
checker == <<current, prev, rest>>

Ops == {"project_uninit", "project_uninit_mut", "partial_init",
        "project_ptr", "project_ptr_mut"}

\* the macros that start with __assert_unique!
Checked == {"project_uninit_mut", "partial_init"}

\* the macros that borrow the aggregate and bind a Lifetime to the borrow
Borrowing == {"project_uninit", "project_uninit_mut", "partial_init"}

\* sequences of at most n elements of S
SeqsUpTo(S, n) == UNION {[1..k -> S] : k \in 0..n}

\* no lifetime: the handle is a raw pointer
NoLt == 0


\* ------------------------------------------------------------ utils.rs
\* (mutant) the Lifetime is not tied to the borrow
bind_ref_lt_unbound(r) == NoLt

\* (mutant) the Lifetime is not tied to the borrow
bind_mut_lt_unbound(r) == NoLt

\* bind_ref_lt(&'a T) -> Lifetime<'a>: the lifetime of the borrow r
bind_ref_lt(r) == r

\* bind_mut_lt(&'a mut T) -> Lifetime<'a>
bind_mut_lt(r) == r

\* uninit_from_ptr(ptr, lt) -> &'a MaybeUninit<T>
uninit_from_ptr(ptr, l) ==
    [addr |-> ptr, lt |-> l, kind |-> "ref", cell |-> "MaybeUninit"]

\* uninit_from_mut_ptr(ptr, lt) -> &'a mut MaybeUninit<T>
uninit_from_mut_ptr(ptr, l) ==
    [addr |-> ptr, lt |-> l, kind |-> "mut", cell |-> "MaybeUninit"]

\* deref_ptr_with_lt(ptr, lt) -> &'a mut T
deref_ptr_with_lt(ptr, l) ==
    [addr |-> ptr, lt |-> l, kind |-> "mut", cell |-> "T"]

\* project_ptr!: the *const T that addr_of! yields
const_ptr(ptr) == [addr |-> ptr, lt |-> NoLt, kind |-> "const_ptr", cell |-> "T"]

\* project_ptr_mut!: the *mut T that addr_of_mut! yields
mut_ptr(ptr) == [addr |-> ptr, lt |-> NoLt, kind |-> "mut_ptr", cell |-> "T"]

\* a handle together with the call and tuple position that produced it and
\* the field (hence the type and size) it is typed as
Tagged(h, c, k, p) ==
    [addr |-> h.addr, lt |-> h.lt, kind |-> h.kind, cell |-> h.cell,
     call |-> c, idx |-> k, path |-> p, size |-> size_of(ty, p)]

\* ------------------------------------------------------- compile time
\* (mutant) every macro starts with __assert_unique!
ExpansionErrorsEveryMacro(o, ps) == assert_unique(HeadExpr, TokenGroups(ps))

\* the compile_error!s of the macro's expansion: project_uninit_mut! and
\* partial_init! start with __assert_unique!($expr, [ [path] ... ])
ExpansionErrors(o, ps) ==
    IF o \in Checked THEN assert_unique(HeadExpr, TokenGroups(ps)) ELSE <<>>

\* Two places of one aggregate overlap: one contains the other, or they
\* leave a union through different fields.
PlacesConflict(t, p, q) ==
    \/ IsPrefix(p, q)
    \/ IsPrefix(q, p)
    \/ KindAt(t, SubSeq(p, 1, CommonLen(p, q))) = "union"

\* `let _ref = $expr.borrow_mut()` / `$expr.borrow()`: the borrow of the
\* whole aggregate against the lifetimes of the handles still in use
ReceiverBorrowError(o) ==
    IF o \in Checked /\ (\E h \in handles : h.lt # NoLt /\ h.kind = "mut")
        THEN "E0499"
    ELSE IF o \in Checked /\ (\E h \in handles : h.lt # NoLt)
        THEN "E0502"
    ELSE IF o = "project_uninit"
            /\ (\E h \in handles : h.lt # NoLt /\ h.kind = "mut")
        THEN "E0502"
    ELSE ""

\* (mutant) the never-executed block is missing
FieldBorrowErrorNoBlock(o, ps) == ""

\* the never-executed block `let _y = ($(&mut _x.path,)*)`: all the field
\* borrows are live together (shared borrows in project_uninit! never clash)
FieldBorrowError(o, ps) ==
    IF o \in Checked
       /\ \E a, b \in 1..Len(ps) : a < b /\ PlacesConflict(ty, ps[a], ps[b])
    THEN "E0499" ELSE ""

\* (mutant) the macro's expansion is not checked for errors
CompileVerdictUnchecked(o, ps) == ReceiverBorrowError(o)

\* what the compiler says about the call: macro errors stop the build before
\* borrow checking
CompileVerdict(o, ps) ==
    IF ExpansionErrors(o, ps) # <<>> THEN "compile_error"
    ELSE IF ReceiverBorrowError(o) # "" THEN ReceiverBorrowError(o)
    ELSE FieldBorrowError(o, ps)

\* the Lifetime `lt` of the call c
BoundLifetime(o, c) ==
    IF o = "project_uninit" THEN bind_ref_lt(c)
    ELSE IF o \in Checked THEN bind_mut_lt(c)
    ELSE NoLt

\* the handle the i-th block of the macro evaluates to
FieldHandle(o, ptr, l) ==
    IF o = "project_uninit" THEN uninit_from_ptr(ptr, l)
    ELSE IF o = "project_uninit_mut" THEN uninit_from_mut_ptr(ptr, l)
    ELSE IF o = "partial_init" THEN deref_ptr_with_lt(ptr, l)
    ELSE IF o = "project_ptr" THEN const_ptr(ptr)
    ELSE mut_ptr(ptr)

\* (mutant) partial_init! creates the handle without storing the value
BlockStartNoWrite(o, ps, k) == IF k > Len(ps) THEN "return" ELSE "ref"

\* where the body continues for field block k
BlockStart(o, ps, k) ==
    IF k > Len(ps) THEN "return"
    ELSE IF o = "partial_init" THEN "write" ELSE "ref"


\* ------------------------------------------------------------ history
\* no store has happened yet
NothingStored(t) == [l \in LeavesIn(t, <<>>) |-> Uninit]

\* the record after a store of the value v (every primitive field v) to the
\* place p: the primitive fields inside p hold v; a primitive field that
\* shares storage with p without being inside it (through a union) holds no
\* value of its own type any more; the others keep theirs
Stored(w, t, p, v) ==
    [l \in DOMAIN w |->
        IF IsPrefix(p, l) THEN v
        ELSE IF PlacesConflict(t, p, l) THEN Uninit
        ELSE w[l]]

\* the record for a new aggregate: MaybeUninit::uninit() stores nothing,
\* MaybeUninit::new(value) stores v to every primitive field of the value (a
\* union value is made through its tuple field)
Created(t, v) ==
    IF v = Uninit THEN NothingStored(t)
    ELSE Stored(NothingStored(t), t,
                IF RootKind(t) = "union" THEN <<"y">> ELSE <<>>, v)

\* ---------------------------------------------------------------- Init
NoFrame ==
    /\ op = "" /\ paths = <<>> /\ form = "" /\ vals = <<>> /\ errors = <<>>
    /\ verdict = "" /\ lt = NoLt /\ i = 0 /\ ret = <<>>
    /\ current = <<>> /\ prev = <<>> /\ rest = <<>>

\* MaybeUninit::<T>::uninit(), or MaybeUninit::new(value) with every
\* primitive field holding v (padding stays without value)
InitialBytes(t, v) ==
    [k \in 0..(SizeOf(t) - 1) |->
        LET cover == {l \in FieldPaths(t) :
                         /\ Fields(t)[l].kind = "prim"
                         /\ k \in Range(addr_of(t, 0, l), size_of(t, l))}
        IN  IF v = Uninit \/ cover = {} THEN Uninit
            ELSE IF \E l \in cover : addr_of(t, 0, l) = k THEN v ELSE 0]

\* the value of the fields of an aggregate made by MaybeUninit::new
InitVal == CHOOSE v \in Vals : \A w \in Vals : v <= w

\* InitialBytes of uninitialized storage, tabulated
UninitBytes == [t \in Types |-> InitialBytes(t, Uninit)]

Init ==
    /\ ty \in Types
    /\ alive = TRUE
    /\ \E v \in {Uninit, InitVal} :
           /\ mem = InitialBytes(ty, v)
           /\ written = Created(ty, v)
    /\ handles = {}
    /\ calls = 0
    /\ used = 0
    /\ committed = <<>>
    /\ pc = "idle"
    /\ pre = mem
    /\ NoFrame

\* ------------------------------------------------------------- actions
\* the values a call can carry: one per path for partial_init!, none otherwise
Cost(ps) == IF ps = <<>> THEN 1 ELSE Len(ps)

CallValues(o, ps) ==
    IF o = "partial_init" THEN [1..Len(ps) -> Vals] ELSE {<<>>}

\* A macro call is compiled (expanded, borrow checked); a rejected call
\* ends the behaviour: the program does not build.  The call is taken in
\* its multi-field form `macro!(x => { path, ... })`; the single-field form
\* `macro!(x => path)` is this call with the one path, followed by `.0`.
Call(o, ps, vs) ==
    /\ pc = "idle"
    /\ alive
    /\ used + Cost(ps) <= MaxFields
    /\ vs \in CallValues(o, ps)
    /\ calls' = IF ps = <<>> THEN calls ELSE calls + 1
    /\ used' = used + Cost(ps)
    /\ op' = o
    /\ paths' = ps
    /\ form' = "multi"
    /\ vals' = vs
    /\ pre' = mem
    /\ errors' = ExpansionErrors(o, ps)
    /\ ret' = <<>>
    /\ LET v == CompileVerdict(o, ps)
       IN  /\ verdict' = v
           /\ IF v # ""
              THEN pc' = "rejected" /\ lt' = NoLt /\ i' = 0
              ELSE /\ pc' = BlockStart(o, ps, 1)
                   /\ lt' = BoundLifetime(o, calls + 1)
                   /\ i' = 1
    /\ UNCHANGED <<ty, alive, mem, written, handles, committed, checker>>

\* partial_init!: prop_ptr = addr_of_mut!((*ptr).path); ptr::write(prop_ptr, val)
FieldWrite ==
    /\ pc = "write"
    /\ mem' = ptr_write(mem, addr_of(ty, 0, paths[i]),
                        ValueBytes(ty, paths[i], vals[i]))
    /\ written' = Stored(written, ty, paths[i], vals[i])
    /\ pc' = "ref"
    /\ UNCHANGED <<ty, alive, handles, calls, used, committed, op, paths,
                   form, vals, pre, errors, verdict, lt, i, ret, checker>>

\* the block's handle: addr_of!((*ptr).path) given the bound lifetime (the
\* reference macros) or returned as it is (the pointer macros)
FieldRef ==
    /\ pc = "ref"
    /\ ret' = Append(ret, Tagged(FieldHandle(op, addr_of(ty, 0, paths[i]), lt),
                                 calls, i, paths[i]))
    /\ i' = i + 1
    /\ pc' = BlockStart(op, paths, i + 1)
    /\ UNCHANGED <<ty, alive, mem, written, handles, calls, used, committed, op, paths,
                   form, vals, pre, errors, verdict, lt, checker>>

\* the macro's value, the tuple of handles, reaches the caller
Return ==
    /\ pc = "return"
    /\ handles' = handles \cup {ret[k] : k \in 1..Len(ret)}
    /\ pc' = "idle"
    /\ op' = "" /\ paths' = <<>> /\ form' = "" /\ vals' = <<>> /\ errors' = <<>>
    /\ verdict' = "" /\ lt' = NoLt /\ i' = 0 /\ ret' = <<>>
    /\ pre' = mem
    /\ UNCHANGED <<ty, alive, mem, written, calls, used, committed, checker>>

\* the caller's last use of a handle
DropHandle(h) ==
    /\ pc = "idle"
    /\ h \in handles
    /\ handles' = handles \ {h}
    /\ UNCHANGED <<ty, alive, mem, written, calls, used, committed, pc, frame, checker>>

\* the caller stores through a handle: `*a = 12`, `*a = MaybeUninit::new(7)`.
\* A raw pointer is only used while no reference is live (the caller's
\* obligation for project_ptr_mut!).
WriteHandle(h, v) ==
    /\ pc = "idle"
    /\ alive
    /\ h \in handles
    /\ used < MaxFields
    /\ \/ h.kind = "mut"
       \/ h.kind = "mut_ptr" /\ \A g \in handles : g.kind \notin {"ref", "mut"}
    /\ mem' = ptr_write(mem, h.addr, ValueBytes(ty, h.path, v))
    /\ written' = Stored(written, ty, h.path, v)
    /\ pre' = mem'
    /\ used' = used + 1
    /\ UNCHANGED <<ty, alive, handles, calls, committed, pc, op, paths,
                   form, vals, errors, verdict, lt, i, ret, checker>>

\* every byte of a primitive field holds a value
FullyInit(t, m) ==
    \A l \in FieldPaths(t) :
        Fields(t)[l].kind = "prim" =>
            \A k \in Range(addr_of(t, 0, l), size_of(t, l)) : m[k] # Uninit

\* the caller's x.assume_init(): moves the aggregate out of its storage,
\* whose bytes are then no value any more.
\* The borrow checker refuses the move while a handle's lifetime is live.
assume_init ==
    /\ pc = "idle"
    /\ alive
    /\ FullyInit(ty, mem)
    /\ IF \E h \in handles : h.lt # NoLt
       THEN /\ pc' = "rejected" /\ verdict' = "E0505" /\ op' = "assume_init"
            /\ UNCHANGED <<alive, committed, mem, pre>>
       ELSE /\ alive' = FALSE /\ committed' = mem
            /\ mem' = UninitBytes[ty] /\ pre' = mem'
            /\ UNCHANGED <<pc, verdict, op>>
    /\ UNCHANGED <<ty, written, handles, calls, used, paths, form, vals,
                   errors, lt, i, ret, checker>>

\* the aggregate's storage goes out of scope (its bytes are gone); refused
\* while a handle's lifetime is live
EndScope ==
    /\ pc = "idle"
    /\ alive
    /\ IF \E h \in handles : h.lt # NoLt
       THEN /\ pc' = "rejected" /\ verdict' = "E0597" /\ op' = "end_scope"
            /\ UNCHANGED <<alive, mem, written, pre>>
       ELSE /\ alive' = FALSE
            /\ mem' = UninitBytes[ty] /\ pre' = mem'
            /\ written' = NothingStored(ty)
            /\ UNCHANGED <<pc, verdict, op>>
    /\ UNCHANGED <<ty, handles, calls, used, committed, paths, form,
                   vals, errors, lt, i, ret, checker>>

Next ==
    \/ /\ pc = "idle"
       /\ \E o \in Ops, ps \in SeqsUpTo(FieldPaths(ty), MaxFields - used) :
              \E vs \in CallValues(o, ps) : Call(o, ps, vs)
    \/ FieldWrite
    \/ FieldRef
    \/ Return
    \/ \E h \in handles : DropHandle(h)
    \/ \E h \in handles, v \in Vals : WriteHandle(h, v)
    \/ assume_init
    \/ EndScope

Spec == Init /\ [][Next]_vars

\* ------------------------------------------- the conflict checker alone
\* __assert_unique! expanded arm by arm on an arbitrary path list
InitCheck ==
    /\ ty \in Types
    /\ alive = TRUE
    /\ mem = InitialBytes(ty, Uninit)
    /\ written = NothingStored(ty)
    /\ handles = {}
    /\ calls = 1
    /\ committed = <<>>
    /\ op \in Checked
    /\ paths \in SeqsUpTo(FieldPaths(ty), MaxPaths)
    /\ form \in {"multi", "single"}
    /\ form = "single" => Len(paths) = 1
    /\ pc = IF form = "single" THEN "single_arm" ELSE "assert_unique"
    /\ used = Len(paths)
    /\ vals = <<>> /\ errors = <<>> /\ verdict = "" /\ lt = NoLt
    /\ i = 0 /\ ret = <<>>
    /\ pre = mem
    /\ current = <<>> /\ prev = <<>> /\ rest = <<>>

\* the single-field arm of project_uninit_mut! / partial_init!: the macro is
\* invoked again with the path as a one-element list
SingleFieldArm ==
    /\ pc = "single_arm"
    /\ pc' = "assert_unique"
    /\ UNCHANGED <<ty, alive, mem, written, handles, calls, used, committed, frame,
                   checker>>

\* (mutant) the arm for two or more paths also takes a single one
AssertUniqueEntryFromOne ==
    /\ pc = "assert_unique"
    /\ IF Len(paths) >= 1
       THEN /\ current' = Head(TokenGroups(paths))
            /\ prev' = <<>>
            /\ rest' = Tail(TokenGroups(paths))
            /\ pc' = "inner"
       ELSE /\ pc' = "expanded"
            /\ UNCHANGED checker
    /\ UNCHANGED <<ty, alive, mem, written, handles, calls, used, committed, frame>>

\* ($head, [$first $($rest)+]) => @inner ...; ($head, [$($first)?]) => {}
AssertUniqueEntry ==
    /\ pc = "assert_unique"
    /\ IF Len(paths) >= 2
       THEN /\ current' = Head(TokenGroups(paths))
            /\ prev' = <<>>
            /\ rest' = Tail(TokenGroups(paths))
            /\ pc' = "inner"
       ELSE /\ pc' = "expanded"
            /\ UNCHANGED checker
    /\ UNCHANGED <<ty, alive, mem, written, handles, calls, used, committed, frame>>

\* (@inner $head, $current, [$prev...], [$next $rest...])
AssertUniqueInner ==
    /\ pc = "inner"
    /\ rest # <<>>
    /\ errors' = errors \o assert_not_from_self(HeadExpr, current,
                                                 Others(prev, rest))
    /\ current' = Head(rest)
    /\ prev' = Append(prev, current)
    /\ rest' = Tail(rest)
    /\ UNCHANGED <<ty, alive, mem, written, handles, calls, used, committed, pc, op,
                   paths, form, vals, pre, verdict, lt, i, ret>>

\* (@inner $head, $current, [$prev...], [])
AssertUniqueLast ==
    /\ pc = "inner"
    /\ rest = <<>>
    /\ errors' = errors \o assert_not_from_self(HeadExpr, current,
                                                 Others(prev, <<>>))
    /\ pc' = "expanded"
    /\ UNCHANGED <<ty, alive, mem, written, handles, calls, used, committed, op,
                   paths, form, vals, pre, verdict, lt, i, ret, checker>>

NextCheck ==
    SingleFieldArm \/ AssertUniqueEntry \/ AssertUniqueInner \/ AssertUniqueLast

SpecCheck == InitCheck /\ [][NextCheck]_vars


\* ===================================================== checked properties
Groups == TokenGroups(paths)

\* b is a followed by at least one more token
IsProperPrefix(a, b) == Len(a) < Len(b) /\ SubSeq(b, 1, Len(a)) = a

\* the list ps rearranged by the permutation f of its positions
Permuted(ps, f) == [k \in 1..Len(ps) |-> ps[f[k]]]

\* C1: a path list of length >= 2 with two identical token sequences at
\* different positions is rejected by __assert_unique!, wherever the two
\* duplicates stand and whatever else is in the list.
C1_DuplicateRejected ==
    (pc = "expanded"
     /\ \E a, b \in 1..Len(paths) : a # b /\ Groups[a] = Groups[b])
    => errors # <<>>

\* a duplicate at the two ends of a three path list ({a, b, a}), rejected
C1_Witness ==
    /\ pc = "expanded"
    /\ Len(paths) = 3
    /\ paths[1] = paths[3]
    /\ paths[1] # paths[2]
    /\ ~IsPrefix(paths[1], paths[2]) /\ ~IsPrefix(paths[2], paths[1])
    /\ errors # <<>>

\* C2: a path list in which one path is a proper token-wise prefix of
\* another is rejected, and every permutation of the list gets the same
\* verdict.
C2_NestedRejected ==
    (pc = "expanded"
     /\ \E a, b \in 1..Len(paths) : IsProperPrefix(Groups[a], Groups[b]))
    => /\ errors # <<>>
       /\ \A f \in Permutations(1..Len(paths)) :
              assert_unique(HeadExpr, TokenGroups(Permuted(paths, f))) # <<>>

\* the child is listed before its parent ({b.1.0, b}) and the list is rejected
C2_Witness ==
    /\ pc = "expanded"
    /\ \E a, b \in 1..Len(paths) :
           a < b /\ IsProperPrefix(Groups[b], Groups[a])
    /\ \A a, b \in 1..Len(paths) :
           a < b => ~IsPrefix(Groups[a], Groups[b])
    /\ errors # <<>>

\* C3: a path list in which no two paths are equal and none is a prefix of
\* another gets no error, also when paths share a proper prefix and diverge.
C3_NoFalsePositive ==
    (pc = "expanded"
     /\ \A a, b \in 1..Len(paths) : a # b => ~IsPrefix(Groups[a], Groups[b]))
    => errors = <<>>

\* two paths that share a proper prefix and then diverge (b.1.0, b.1.1),
\* next to an unrelated one, and no error
C3_Witness ==
    /\ pc = "expanded"
    /\ Len(paths) = 3
    /\ \E a, b \in 1..3 :
           /\ a # b
           /\ Len(paths[a]) = 3 /\ Len(paths[b]) = 3
           /\ CommonLen(paths[a], paths[b]) = 2
    /\ errors = <<>>

\* the stepwise expansion and the expansion run to its end agree
ExpansionAgrees ==
    pc = "expanded" => errors = assert_unique(HeadExpr, Groups)


\* ------------------------------------------------------------ the macros
RefKinds == {"ref", "mut"}

\* the handles the caller holds plus those the running call has produced
AllHandles == handles \cup {ret[k] : k \in 1..Len(ret)}

HandleBytes(h) == Range(h.addr, h.size)

PairwiseDisjoint(hs) ==
    \A a, b \in 1..Len(hs) : a # b => HandleBytes(hs[a]) \cap HandleBytes(hs[b]) = {}

\* two paths leave a union through different fields
UnionClash(t, ps) ==
    \E a, b \in 1..Len(ps) :
        /\ ~IsPrefix(ps[a], ps[b]) /\ ~IsPrefix(ps[b], ps[a])
        /\ KindAt(t, SubSeq(ps[a], 1, CommonLen(ps[a], ps[b]))) = "union"

\* an exclusive macro call, made while no reference of an earlier call is
\* live, whose path set the conflict checker accepts
AcceptedExclusive ==
    /\ op \in Checked
    /\ pc \in {"rejected", "write", "ref", "return"}
    /\ errors = <<>>
    /\ \A h \in handles : h.kind \notin RefKinds

\* C4 as stated: every path set the checker accepts makes
\* project_uninit_mut! / partial_init! succeed, with handles to pairwise
\* disjoint byte ranges.
C4_AcceptedSucceeds ==
    AcceptedExclusive =>
        /\ pc # "rejected"
        /\ PairwiseDisjoint(ret)

\* C4 (amended): a path set the checker accepts makes project_uninit_mut! /
\* partial_init! succeed, with one handle per path to pairwise disjoint byte
\* ranges, unless two of its paths select different fields of one union:
\* then the checker accepts it too and the borrow check of the never-executed
\* `&mut` block rejects the call (E0499).
C4_AcceptedDisjoint ==
    AcceptedExclusive =>
        /\ (pc = "rejected") = UnionClash(ty, paths)
        /\ pc = "rejected" => verdict = "E0499"
        /\ PairwiseDisjoint(ret)
        /\ pc = "return" => Len(ret) = Len(paths)

\* two distinct fields projected exclusively in one call that has returned
C4_Witness ==
    /\ AcceptedExclusive
    /\ pc = "return"
    /\ Len(ret) >= 2
    /\ PairwiseDisjoint(ret)

\* C5: project_uninit!, project_ptr! and project_ptr_mut! never run the
\* conflict checker; a call with equal or nested paths is not rejected for
\* its paths and returns, in the order listed, one handle per path at that
\* path's field.
C5_NonExclusiveUnchecked ==
    (op \in Ops \ Checked) =>
        /\ errors = <<>>
        /\ pc = "rejected" =>
              /\ op = "project_uninit"
              /\ verdict = "E0502"
              /\ \E h \in handles : h.kind = "mut"
        /\ \A k \in 1..Len(ret) :
              /\ ret[k].path = paths[k]
              /\ ret[k].idx = k
              /\ HandleBytes(ret[k]) =
                     Range(addr_of(ty, 0, paths[k]), size_of(ty, paths[k]))
        /\ pc = "return" => Len(ret) = Len(paths)

\* a non-exclusive call on a parent and its child has returned both handles
C5_Witness ==
    /\ op \in Ops \ Checked
    /\ pc = "return"
    /\ Len(ret) = 2
    /\ IsPrefix(paths[1], paths[2])
    /\ HandleBytes(ret[2]) \subseteq HandleBytes(ret[1])

\* C6: while a reference handle of an earlier call is live, a
\* project_uninit_mut! / partial_init! call on the aggregate is rejected,
\* whatever its paths; no two live reference handles of different calls
\* coexist if either is mutable.
C6_WholeAggregateExclusive ==
    /\ (op \in Checked /\ pc \in {"write", "ref", "return"})
         => \A h \in handles : h.kind \notin RefKinds
    /\ \A h, g \in AllHandles :
           (h.call # g.call /\ h.kind \in RefKinds /\ g.kind \in RefKinds)
           => (h.kind = "ref" /\ g.kind = "ref")

\* a live handle to one field, and an exclusive call on a disjoint field
\* rejected by the borrow checker
C6_Witness ==
    /\ pc = "rejected"
    /\ op \in Checked
    /\ errors = <<>>
    /\ verdict \in {"E0499", "E0502"}
    /\ Len(paths) = 1
    /\ \E h \in handles :
           /\ h.kind \in RefKinds
           /\ ~IsPrefix(h.path, paths[1]) /\ ~IsPrefix(paths[1], h.path)

\* C7: a reference handle carries the lifetime of the borrow of the
\* aggregate made by its call: while it is live the storage is in scope
\* (ending the storage is refused), and it stays usable after the call has
\* returned, addressing its field inside the storage.
C7_HandleLifetime ==
    \A h \in AllHandles :
        h.kind \in RefKinds =>
            /\ alive
            /\ h.lt # NoLt
            /\ h.lt = h.call
            /\ HandleBytes(h) \subseteq DOMAIN mem

\* the storage's end is refused because a returned handle is still in use
C7_Witness ==
    /\ pc = "rejected"
    /\ verdict = "E0597"
    /\ alive
    /\ \E h \in handles : h.kind \in RefKinds /\ h.lt = h.call


\* the bytes of field p in storage m
FieldBytes(m, p) == ReadBytes(m, addr_of(ty, 0, p), size_of(ty, p))

\* p neither equals, contains nor lies inside q
Unrelated(p, q) == ~IsPrefix(p, q) /\ ~IsPrefix(q, p)

\* a partial_init! call has run all its field blocks
InitDone == op = "partial_init" /\ pc = "return"

\* C8 as stated: after partial_init! every named field holds its value and
\* every field whose path neither equals, contains nor lies inside a named
\* path holds what it held before the call.
C8_FrameByPath ==
    InitDone =>
        /\ \A k \in 1..Len(paths) :
               FieldBytes(mem, paths[k]) = ValueBytes(ty, paths[k], vals[k])
        /\ \A q \in FieldPaths(ty) :
               (\A k \in 1..Len(paths) : Unrelated(q, paths[k]))
               => FieldBytes(mem, q) = FieldBytes(pre, q)

\* C8 (amended): partial_init! changes only the bytes of the fields it
\* names: after the call every named field holds its value, every other
\* byte of the storage is what it was, and so is every field whose bytes
\* overlap no named field (in an aggregate without unions: whose path
\* neither equals, contains nor lies inside a named path).
FrameByBytes ==
    InitDone =>
        /\ \A k \in 1..Len(paths) :
               FieldBytes(mem, paths[k]) = ValueBytes(ty, paths[k], vals[k])
        /\ \A b \in DOMAIN mem :
               (\A k \in 1..Len(paths) :
                    b \notin Range(addr_of(ty, 0, paths[k]), size_of(ty, paths[k])))
               => mem[b] = pre[b]
        /\ \A q \in FieldPaths(ty) :
               (/\ \A k \in 1..Len(paths) : Unrelated(q, paths[k])
                /\ ~UnionClash(ty, Append(paths, q)))
               => FieldBytes(mem, q) = FieldBytes(pre, q)

\* Committing the aggregate (assume_init) returns the bytes of the storage
\* as the calls left them.
C8_FrameByBytes ==
    [][FrameByBytes /\ (committed' # committed => committed' = mem)]_vars

\* an initialized aggregate, one field replaced by a different value and an
\* unrelated initialized field left as it was
C8_Witness ==
    /\ InitDone
    /\ Len(paths) = 1
    /\ FieldBytes(mem, paths[1]) # FieldBytes(pre, paths[1])
    /\ \E q \in FieldPaths(ty) :
           /\ Unrelated(q, paths[1])
           /\ ~UnionClash(ty, <<paths[1], q>>)
           /\ FieldBytes(pre, q) = ValueBytes(ty, q, InitVal)
           /\ FieldBytes(mem, q) = FieldBytes(pre, q)

\* C9: a partial_init! call with n assignments returns n handles in the
\* order listed; a handle exists only once its value is stored, and the
\* k-th handle reads back the k-th value until the call has returned.
C9_HandlesReadBack ==
    op = "partial_init" =>
        /\ \A k \in 1..Len(ret) :
               /\ ret[k].path = paths[k]
               /\ ret[k].idx = k
               /\ ret[k].addr = addr_of(ty, 0, paths[k])
               /\ ReadBytes(mem, ret[k].addr, ret[k].size)
                      = ValueBytes(ty, paths[k], vals[k])
        /\ pc = "return" => Len(ret) = Len(paths)
        /\ pc = "ref" => Len(ret) = i - 1
        /\ pc = "ref" =>
               FieldBytes(mem, paths[i]) = ValueBytes(ty, paths[i], vals[i])

\* two assignments of different values, both handles returned and reading
\* back their own value
C9_Witness ==
    /\ InitDone
    /\ Len(ret) = 2
    /\ vals[1] # vals[2]
    /\ ReadBytes(mem, ret[1].addr, ret[1].size) = ValueBytes(ty, paths[1], vals[1])
    /\ ReadBytes(mem, ret[2].addr, ret[2].size) = ValueBytes(ty, paths[2], vals[2])
    /\ ReadBytes(pre, ret[1].addr, ret[1].size) # ValueBytes(ty, paths[1], vals[1])

\* C10: an exclusive call whose path set conflicts is rejected before any
\* store: no field block runs, no handle is produced and the storage is
\* what it was when the call started.
C10_RejectedBeforeWrite ==
    /\ (op \in Checked /\ assert_unique(HeadExpr, TokenGroups(paths)) # <<>>)
         => /\ pc = "rejected"
            /\ verdict = "compile_error"
            /\ errors # <<>>
            /\ mem = pre
            /\ ret = <<>>
    /\ pc \in {"write", "ref", "return"} => (errors = <<>> /\ verdict = "")

\* a partial_init! on an initialized aggregate, naming one field twice with
\* new values, rejected with the storage untouched
C10_Witness ==
    /\ pc = "rejected"
    /\ op = "partial_init"
    /\ errors # <<>>
    /\ Len(paths) = 2
    /\ paths[1] = paths[2]
    /\ FieldBytes(mem, paths[1]) = ValueBytes(ty, paths[1], InitVal)
    /\ vals[1] # InitVal
    /\ mem = pre

\* ---- error messages
\* the text the caller reads for the place `x.p1.p2...`
PathText(p) ==
    <<HeadExpr>> \o [k \in 1..(2 * Len(p)) |->
                        IF k % 2 = 1 THEN "." ELSE p[k \div 2]]

DuplicateWording == "' more than once at a time"
NestingWording == "' and and its parent '"

Pieces(m) == {m[k] : k \in 1..Len(m)}

\* the message for the path p named twice
DuplicateMessage(p) ==
    <<"Cannot mutably borrow '">> \o PathText(p) \o <<DuplicateWording>>

\* the message for the path c named together with its parent p
NestingMessage(c, p) ==
    <<"Cannot mutably borrow '">> \o PathText(c) \o <<NestingWording>>
        \o PathText(p) \o <<"' at the same time.">>

\* C11: every error the conflict checker emits names the conflicting paths
\* and the kind of relation: for an equal pair the repeated path (receiver
\* plus path) with the duplicate wording, for a prefix pair the child's full
\* path and the parent's path with the nesting wording; a duplicate never
\* carries the nesting wording nor a nested pair the duplicate wording, and
\* at the end of the expansion every conflicting pair has its message.
C11_MessageNamesPair ==
    /\ \A k \in 1..Len(errors) :
           \E a, b \in 1..Len(paths) :
               /\ a # b
               /\ \/ /\ paths[a] = paths[b]
                     /\ errors[k].arm = "equal"
                     /\ errors[k].msg = DuplicateMessage(paths[a])
                     /\ NestingWording \notin Pieces(errors[k].msg)
                  \/ /\ IsPrefix(paths[a], paths[b]) /\ paths[a] # paths[b]
                     /\ errors[k].arm = "prefix"
                     /\ errors[k].msg = NestingMessage(paths[b], paths[a])
                     /\ DuplicateWording \notin Pieces(errors[k].msg)
    /\ pc = "expanded" =>
           \A a, b \in 1..Len(paths) :
               /\ (a # b /\ paths[a] = paths[b]) =>
                      \E k \in 1..Len(errors) :
                          errors[k].msg = DuplicateMessage(paths[a])
               /\ (IsPrefix(paths[a], paths[b]) /\ paths[a] # paths[b]) =>
                      \E k \in 1..Len(errors) :
                          errors[k].msg = NestingMessage(paths[b], paths[a])

\* a list with a path named twice and a child two levels below its parent
\* ({b, b.1.0, b}): both kinds of message have been emitted
C11_Witness ==
    /\ pc = "expanded"
    /\ \E k \in 1..Len(errors) : errors[k].arm = "equal"
    /\ \E k \in 1..Len(errors) :
           /\ errors[k].arm = "prefix"
           /\ \E a, b \in 1..Len(paths) :
                  /\ Len(paths[b]) = Len(paths[a]) + 2
                  /\ errors[k].msg = NestingMessage(paths[b], paths[a])

\* ---- number and order of the errors
\* the ordered pairs <<a, b>> of positions where path a is path b or a
\* parent of it
ConflictPairs ==
    {pr \in (1..Len(paths)) \X (1..Len(paths)) :
        pr[1] # pr[2] /\ IsPrefix(paths[pr[1]], paths[pr[2]])}

\* the order in which the expansion tests the pairs: the candidate parent
\* from left to right, and for each the other paths from left to right
ScannedBefore(pr, qr) ==
    pr[1] < qr[1] \/ (pr[1] = qr[1] /\ pr[2] <= qr[2])

FirstPair ==
    CHOOSE pr \in ConflictPairs : \A qr \in ConflictPairs : ScannedBefore(pr, qr)

PairMessage(pr) ==
    IF paths[pr[1]] = paths[pr[2]] THEN DuplicateMessage(paths[pr[1]])
    ELSE NestingMessage(paths[pr[2]], paths[pr[1]])

\* C12 as stated: one invocation of the checker on a path list with a
\* conflict reports one error, naming the first conflicting pair of the
\* left-to-right scan.
C12_OneError ==
    (pc = "expanded" /\ ConflictPairs # {})
    => /\ Len(errors) = 1
       /\ errors[1].msg = PairMessage(FirstPair)

\* C12 amended: one invocation of the checker on a path list with a
\* conflict reports one error for every ordered pair (parent or equal path,
\* other path), so exactly one only when there is a single such pair; the
\* first error names the first conflicting pair of the scan (candidate
\* parents left to right, each against the other paths left to right).
C12_FirstPairFirst ==
    (pc = "expanded" /\ ConflictPairs # {})
    => /\ errors # <<>>
       /\ errors[1].msg = PairMessage(FirstPair)
       /\ Len(errors) = Cardinality(ConflictPairs)
       /\ (Len(errors) = 1 <=> Cardinality(ConflictPairs) = 1)

\* a parent in the middle of its two children ({b.1.0, b.1, b.1.1}): two
\* errors, the first for the child on the left
C12_Witness ==
    /\ pc = "expanded"
    /\ Len(paths) = 3
    /\ ConflictPairs = {<<2, 1>>, <<2, 3>>}
    /\ Len(errors) = 2
    /\ errors[1].msg = NestingMessage(paths[1], paths[2])

\* ---- short path lists
\* C13: a path list with no path or one path passes the conflict checker
\* without any comparison (the @inner arms are never entered, no error is
\* emitted); the single-field forms of partial_init! and project_uninit_mut!
\* hand the checker a list of one path and so never raise a conflict error,
\* whatever the length of the path.
C13_ShortListPasses ==
    /\ form = "single" => Len(paths) = 1
    /\ Len(paths) <= 1 =>
           /\ pc \in {"single_arm", "assert_unique", "expanded"}
           /\ errors = <<>>
           /\ current = <<>> /\ prev = <<>> /\ rest = <<>>

\* the single-field form on a path three fields deep (x => b => 1 => 0),
\* expanded to its end
C13_Witness ==
    /\ pc = "expanded"
    /\ form = "single"
    /\ Len(paths) = 1
    /\ Len(paths[1]) = 3
    /\ errors = <<>>

\* ---- projection
Projecting == {"project_uninit", "project_uninit_mut"}

\* the offset of the field p in the layout of t: the offsets of the fields
\* on the way from the aggregate to p, added up
LayoutOffset(t, p) ==
    LET off(k) == IF k <= Len(p) THEN Fields(t)[SubSeq(p, 1, k)].off ELSE 0
    IN  off(1) + off(2) + off(3)

\* C14: project_uninit! and project_uninit_mut! leave the aggregate's
\* storage byte for byte as it was when the call started, and whatever the
\* storage holds (values, uninitialized bytes, both) the handle of a path is
\* at the field's offset in the aggregate's layout.
C14_ProjectionPure ==
    (op \in Projecting /\ verdict = "")
    => /\ mem = pre
       /\ \A k \in 1..Len(ret) :
              /\ ret[k].path = paths[k]
              /\ ret[k].addr = LayoutOffset(ty, paths[k])
              /\ ret[k].size = Fields(ty)[paths[k]].size

\* project_uninit_mut! on a Foo whose field a holds a value and whose field
\* b.1.1 does not: the handle of b.1.1 is at offset 8 + 4 + 1
C14_Witness ==
    /\ op = "project_uninit_mut"
    /\ pc = "return"
    /\ ty = "Foo"
    /\ mem[0] # Uninit
    /\ mem[13] = Uninit
    /\ \E k \in 1..Len(ret) :
           ret[k].path = <<"b", "1", "1">> /\ ret[k].addr = 13

\* ---- effects over several calls
\* the handles whose lifetime still borrows the aggregate
LiveBorrows == {h \in handles : h.lt # NoLt}

\* the storage m holds, in every primitive field stored to so far, the
\* value last stored into it
HoldsLastStored(m) ==
    \A l \in DOMAIN written :
        written[l] # Uninit => FieldBytes(m, l) = ValueBytes(ty, l, written[l])

\* C15: the conflict check looks at the paths of one call only, and the
\* effects of the calls add up: a partial_init! call is refused by the
\* checker exactly when two of its own paths are equal or nested, and with
\* no handle in use and no two overlapping paths of its own it is accepted,
\* whatever earlier calls named; a store to a parent replaces what an
\* earlier call stored to a child; every primitive field not overlapped by
\* a later store holds the value last stored into it, by a call or through
\* a handle, and that is what assume_init returns.
C15_Accumulates ==
    /\ (op = "partial_init" /\ pc # "idle") =>
           /\ verdict = "compile_error" <=>
                  \E a, b \in 1..Len(paths) :
                      a # b /\ IsPrefix(paths[a], paths[b])
           /\ (/\ LiveBorrows = {}
               /\ \A a, b \in 1..Len(paths) :
                      a # b => ~PlacesConflict(ty, paths[a], paths[b]))
              => verdict = ""
    /\ alive => HoldsLastStored(mem)
    /\ committed # <<>> => HoldsLastStored(committed)

\* a second partial_init! call stores to b.1 after an earlier store to
\* b.1.0 alone (b.1.1 was still uninitialized): the call is accepted and
\* b.1.0 now holds the value given for b.1
C15_Witness ==
    /\ op = "partial_init"
    /\ pc = "return"
    /\ ty = "Foo"
    /\ paths = << <<"b", "1">> >>
    /\ FieldBytes(pre, <<"b", "1", "0">>) # FieldBytes(mem, <<"b", "1", "0">>)
    /\ FieldBytes(pre, <<"b", "1", "0">>) \in
           {ValueBytes(ty, <<"b", "1", "0">>, v) : v \in Vals}
    /\ FieldBytes(pre, <<"b", "1", "1">>) = <<Uninit>>
    /\ FieldBytes(mem, <<"b", "1", "0">>) = ValueBytes(ty, <<"b", "1", "0">>, vals[1])
    /\ written[<<"b", "1", "1">>] = vals[1]

\* an aggregate committed after a store to a of a value other than the one
\* it was created with
C15_CommitsLastStore ==
    /\ committed # <<>>
    /\ ty = "Foo"
    /\ written[<<"a">>] # Uninit
    /\ written[<<"a">>] # InitVal

\* ---- every ordered pair
\* the messages for the pairs <<a, b>>, b = from..Len(paths), b # a
RECURSIVE MessagesOfCandidate(_, _)
MessagesOfCandidate(a, from) ==
    IF from > Len(paths) THEN <<>>
    ELSE (IF a # from /\ IsPrefix(paths[a], paths[from])
          THEN <<PairMessage(<<a, from>>)>> ELSE <<>>)
         \o MessagesOfCandidate(a, from + 1)

\* the messages for the candidates 1..k, each against all the others
RECURSIVE MessagesUpTo(_)
MessagesUpTo(k) ==
    IF k = 0 THEN <<>>
    ELSE MessagesUpTo(k - 1) \o MessagesOfCandidate(k, 1)

\* the @inner steps expanded so far
StepsDone ==
    IF pc = "inner" THEN Len(prev)
    ELSE IF pc = "expanded" /\ Len(paths) >= 2 THEN Len(prev) + 1
    ELSE 0

\* C16: on a list of n >= 2 paths __assert_unique! takes n @inner steps, the
\* k-th with the k-th path as $current and prev ++ [current] ++ rest the
\* list as written; step k tests path k against every other path once, so
\* after k steps the errors are those of the ordered pairs (a, b), a <= k,
\* b # a, in which path a equals or is a proper prefix of path b, one each
\* and in that order; at the end their number is the number of such ordered
\* pairs (one for a nested pair, two for an equal pair).
C16_EveryOrderedPair ==
    /\ pc = "inner" =>
           /\ prev \o <<current>> \o rest = Groups
           /\ Len(paths) >= 2
    /\ (pc = "expanded" /\ Len(paths) >= 2) =>
           /\ prev \o <<current>> = Groups
           /\ rest = <<>>
           /\ StepsDone = Len(paths)
           /\ Len(errors) = Cardinality(ConflictPairs)
    /\ [k \in 1..Len(errors) |-> errors[k].msg] = MessagesUpTo(StepsDone)

\* three paths, the first and the last equal and the middle one their
\* child ({b, b.1, b}): four ordered conflicting pairs, four errors
C16_Witness ==
    /\ pc = "expanded"
    /\ Len(paths) = 3
    /\ paths[1] = paths[3]
    /\ IsPrefix(paths[1], paths[2]) /\ paths[1] # paths[2]
    /\ ConflictPairs = {<<1, 2>>, <<1, 3>>, <<3, 1>>, <<3, 2>>}
    /\ Len(errors) = 4


====
